---- MODULE Spec2Model ----
(***************************************************************************)
(* Model of pybie2d/kernels/low_level/modified_helmholtz.py: the direct    *)
(* pairwise summation engine, its numba and FMM front ends, the backend    *)
(* dispatcher and the dense kernel-matrix former.                          *)
(*                                                                         *)
(* Arithmetic.  A real number is a polynomial c[1] + c[2]*S + c[3]*S^2 in  *)
(* S = 1/(2*pi) with integer coefficients, or the non-finite value NF      *)
(* (inf or nan: what IEEE arithmetic gives at r = 0).  S is transcendental,*)
(* so two finite values are equal exactly when their coefficients are;     *)
(* the power of S counts how many times the 1/(2*pi) scale was applied.    *)
(* K0 and K1 are the external special functions; they are tabulated on the *)
(* integer arguments k*r the point grid produces, K1 in multiples of 60 so *)
(* that the code's division by r in {3,4,5} is exact.                      *)
(***************************************************************************)
EXTENDS Integers, Sequences, FiniteSets, TLC

\* ------------------------------------------------------------------ bounds
\* largest number of points in a source point set
MaxN == 2
\* largest number of points in a target array that is neither the source nor a
\* copy of it
MaxT == 1

\* ------------------------------------------------------------------ numbers
None == <<>>

NF == [nf |-> TRUE, c |-> <<0, 0, 0>>]
Num(m) == [nf |-> FALSE, c |-> <<m, 0, 0>>]
Zero == Num(0)
\* 1/(2*pi)
InvTwoPi == [nf |-> FALSE, c |-> <<0, 1, 0>>]

\* the one element of a singleton set (its operands are evaluated once)
The(S) == CHOOSE x \in S : TRUE

AddV(a, b) ==
    IF a.nf \/ b.nf THEN NF
    ELSE [nf |-> FALSE, c |-> <<a.c[1] + b.c[1], a.c[2] + b.c[2], a.c[3] + b.c[3]>>]
Add(a, b) == The({AddV(x, y) : x \in {a}, y \in {b}})

MulV(a, b) ==
    IF a.nf \/ b.nf THEN NF
    ELSE [nf |-> FALSE,
          c |-> <<a.c[1] * b.c[1],
                  a.c[1] * b.c[2] + a.c[2] * b.c[1],
                  a.c[1] * b.c[3] + a.c[2] * b.c[2] + a.c[3] * b.c[1]>>]
Mul(a, b) == The({MulV(x, y) : x \in {a}, y \in {b}})

\* a / r for an integer r; r = 0 gives a non-finite value
DivIntV(a, r) ==
    IF a.nf \/ r = 0 THEN NF
    ELSE [nf |-> FALSE, c |-> <<a.c[1] \div r, a.c[2] \div r, a.c[3] \div r>>]
DivInt(a, r) == The({DivIntV(x, y) : x \in {a}, y \in {r}})

\* np.sqrt on the squared distances of the grid (all perfect squares)
Sqrt(r2) == CHOOSE r \in 0..r2 : r * r = r2

\* modified Bessel functions of the second kind, singular at 0
numba_k0(z) == IF z = 0 THEN NF ELSE Num(100 - 3 * z)
numba_k1(z) == IF z = 0 THEN NF ELSE Num(60 * (40 - z))

Modified_Helmholtz_Greens_Function(r, kk) == numba_k0(kk * r)

Modified_Helmholtz_Greens_Function_Derivative(r, kk) ==
    DivInt(Mul(Num(kk), numba_k1(kk * r)), r)

\* ------------------------------------------------------------------ arrays
\* np.zeros(n), as an array of numbers
NumZeros(n) == [j \in 1..n |-> Zero]

\* a point set is a float(2, n) array object: id is the Python object, buf the
\* memory it views, x and y its two rows
Shape1(ps) == Len(ps.x)

\* source[0], source[1]: a fresh view object on one row of the array's memory
RowView(ps, row) ==
    [buf |-> ps.buf, off |-> row, n |-> Shape1(ps),
     v |-> IF row = 0 THEN ps.x ELSE ps.y]

\* `a is b` on two arrays inside an njit function.  source[0] and target[0]
\* are always two view objects, so the jitted `is` cannot be object identity:
\* it holds when the two arrays have the same shape, strides and data pointer
ArrayIs(a, b) == a.n = b.n /\ a.buf = b.buf /\ a.off = b.off

\* `source is target` in Python code: object identity
PyIs(a, b) == a.id = b.id

\* ------------------------------------------------- direct summation engine
\* the engine's arguments, bundled: sx, sy, tx, ty are row views; charge and
\* dipstr are arrays of (pre-scaled) numbers; nx, ny integer arrays
ns_of(e) == e.sx.n
nt_of(e) == e.tx.n

doself(e) == ArrayIs(e.sx, e.tx) /\ ArrayIs(e.sy, e.ty)

PairR(e, i, j) ==
    LET dx == e.tx.v[i] - e.sx.v[j]
        dy == e.ty.v[i] - e.sy.v[j]
    IN  Sqrt(dx * dx + dy * dy)

\* the dipole statement of the loop body: pot[i] += n_dot_d*k*K1(k*r)/r*dipstr[j]
DipoleTerm(e, i, j) ==
    LET dx == e.tx.v[i] - e.sx.v[j]
        dy == e.ty.v[i] - e.sy.v[j]
        r == Sqrt(dx * dx + dy * dy)
        n_dot_d == e.nx[j] * dx + e.ny[j] * dy
    IN  Mul(DivInt(Mul(Mul(Num(n_dot_d), Num(e.k)), numba_k1(e.k * r)), r), e.dipstr[j])

\* the charge statement of the loop body: pot[i] += K0(k*r)*charge[j]
ChargeTerm(e, i, j) ==
    LET dx == e.tx.v[i] - e.sx.v[j]
        dy == e.ty.v[i] - e.sy.v[j]
        r == Sqrt(dx * dx + dy * dy)
    IN  Mul(numba_k0(e.k * r), e.charge[j])

\* the loops without the self-interaction test
VisitsAlways(e, i, j) == TRUE
\* whether the inner loop visits the pair (i, j)
Visits(e, i, j) == ~(doself(e) /\ i = j)

\* the loop body with the charge statement assigning (=) instead of adding (+=)
PairBodyAssign(e, i, j, acc) ==
    IF Visits(e, i, j)
    THEN LET p1 == IF e.ifdipole THEN Add(acc, DipoleTerm(e, i, j)) ELSE acc
         IN  IF e.ifcharge THEN ChargeTerm(e, i, j) ELSE p1
    ELSE acc
\* one pass of the inner loop body for the pair (i, j) on the accumulator pot[i]
PairBody(e, i, j, acc) ==
    IF Visits(e, i, j)
    THEN LET p1 == IF e.ifdipole THEN Add(acc, DipoleTerm(e, i, j)) ELSE acc
         IN  IF e.ifcharge THEN Add(p1, ChargeTerm(e, i, j)) ELSE p1
    ELSE acc

RECURSIVE InnerLoop(_, _, _, _)
InnerLoop(e, i, j, acc) ==
    IF j > ns_of(e) THEN acc
    ELSE InnerLoop(e, i, j + 1, PairBody(e, i, j, acc))

\* the loops run to completion: the final content of pot
modified_helmoholtz(e, pot) ==
    [i \in 1..nt_of(e) |-> InnerLoop(e, i, 1, pot[i])]

\* the division by r of the dipole statement is reached with r = 0
DividesByZero(e) ==
    /\ e.ifdipole
    /\ \E i \in 1..nt_of(e), j \in 1..ns_of(e) : Visits(e, i, j) /\ PairR(e, i, j) = 0

\* pairs the loops visit
PairsVisited(e) ==
    Cardinality({ij \in (1..nt_of(e)) \X (1..ns_of(e)) : Visits(e, ij[1], ij[2])})

\* ------------------------------------------------------------ return values
NoExc == [type |-> "", args |-> <<>>]
Returned(kind, val, evals) == [kind |-> kind, val |-> val, exc |-> NoExc, evals |-> evals]
Raised(type, args) ==
    [kind |-> "raised", val |-> <<>>, exc |-> [type |-> type, args |-> args], evals |-> 0]
NotCalled == [kind |-> "", val |-> <<>>, exc |-> NoExc, evals |-> 0]

NoEngine == [engine |-> "", charge |-> <<>>, dipstr |-> <<>>, dipvec |-> <<>>,
             selfmode |-> FALSE]

\* -------------------------------------------------------------- front ends
\* a call's arguments: a record a with source, target, k, charge, dipstr,
\* dipvec, weights; an absent optional argument is None

\* 0.5*weights/np.pi, at index j (a scalar when weights is None)
weighted_weights(a, j) ==
    IF a.weights = None THEN Mul(Num(1), InvTwoPi) ELSE Mul(Num(a.weights[j]), InvTwoPi)

\* a dipole orientation row of all ones instead of zeros
zero_vec_ones(n) == [j \in 1..n |-> 1]
\* zero_vec = np.zeros(ns), as the integer row standing in for an absent dipvec
zero_vec(n) == [j \in 1..n |-> 0]

\* what Modified_Helmholtz_Kernel_Apply_numba passes to the jitted loops
NumbaEngineArgs(a) ==
    LET n == Shape1(a.source)
    IN  [sx |-> RowView(a.source, 0), sy |-> RowView(a.source, 1),
         tx |-> RowView(a.target, 0), ty |-> RowView(a.target, 1),
         ifcharge |-> a.charge # None,
         ifdipole |-> a.dipstr # None,
         charge |-> IF a.charge = None THEN NumZeros(n)
                    ELSE [j \in 1..n |-> Mul(Num(a.charge[j]), weighted_weights(a, j))],
         dipstr |-> IF a.dipstr = None THEN NumZeros(n)
                    ELSE [j \in 1..n |-> Mul(Num(a.dipstr[j]), weighted_weights(a, j))],
         nx |-> IF a.dipvec = None THEN zero_vec(n) ELSE a.dipvec[1],
         ny |-> IF a.dipvec = None THEN zero_vec(n) ELSE a.dipvec[2],
         k |-> a.k]

NumbaHanded(a) ==
    LET e == NumbaEngineArgs(a)
    IN  [engine |-> "_modified_helmoholtz", charge |-> e.charge, dipstr |-> e.dipstr,
         dipvec |-> <<e.nx, e.ny>>, selfmode |-> doself(e)]

\* zdiv: whether the build raises ZeroDivisionError on a float division by zero
\* (the jit's Python error model) instead of producing inf/nan
Modified_Helmholtz_Kernel_Apply_numba(a, zdiv) ==
    LET e == NumbaEngineArgs(a)
        pot == NumZeros(Shape1(a.target))
    IN  IF zdiv /\ DividesByZero(e)
        THEN Raised("ZeroDivisionError", <<"division by zero">>)
        ELSE Returned("array", modified_helmoholtz(e, pot), PairsVisited(e))

\* what Modified_Helmholtz_Kernel_Apply_FMM passes to the external evaluator
FMMHanded(a) ==
    LET n == Shape1(a.source)
        w(j) == IF a.weights = None THEN 1 ELSE a.weights[j]
    IN  [engine |-> "FMM",
         charge |-> IF a.charge # None THEN [j \in 1..n |-> Num(a.charge[j] * w(j))] ELSE None,
         dipstr |-> IF a.dipstr # None THEN [j \in 1..n |-> Num(a.dipstr[j] * w(j))] ELSE None,
         dipvec |-> a.dipvec,
         selfmode |-> PyIs(a.source, a.target)]

\* u: the real part of the field the external evaluator returns
Modified_Helmholtz_Kernel_Apply_FMM(a, fmm_imported, u) ==
    IF ~fmm_imported THEN Raised("NameError", <<"FMM">>)
    ELSE Returned("array", u, 0)

\* the registry
Modified_Helmholtz_Kernel_Applys == {"numba", "FMM"}

\* the dispatcher; the gradient argument is accepted and not used
Modified_Helmholtz_Kernel_Apply(a, gradient, bk, zdiv, fmm_imported, u) ==
    IF bk \notin Modified_Helmholtz_Kernel_Applys THEN Raised("KeyError", <<bk>>)
    ELSE IF bk = "numba" THEN Modified_Helmholtz_Kernel_Apply_numba(a, zdiv)
    ELSE Modified_Helmholtz_Kernel_Apply_FMM(a, fmm_imported, u)

\* functions entered, in order, by each entry point
CallsOfNumba == <<"Modified_Helmholtz_Kernel_Apply_numba", "_modified_helmoholtz">>
CallsOfFMM(fmm_imported) ==
    <<"Modified_Helmholtz_Kernel_Apply_FMM">> \o (IF fmm_imported THEN <<"FMM">> ELSE <<>>)
CallsOfApply(bk, fmm_imported) ==
    <<"Modified_Helmholtz_Kernel_Apply">> \o
    (IF bk \notin Modified_Helmholtz_Kernel_Applys THEN <<>>
     ELSE IF bk = "numba" THEN CallsOfNumba ELSE CallsOfFMM(fmm_imported))

HandedByApply(a, bk, fmm_imported) ==
    IF bk = "numba" THEN NumbaHanded(a)
    ELSE IF bk = "FMM" /\ fmm_imported THEN FMMHanded(a)
    ELSE NoEngine

\* ------------------------------------------------------ dense matrix former
\* the scale without the quadrature weights
FormScaleUnweighted(a, j) == Mul(InvTwoPi, Num(1))
\* scale = 1/(2*pi) * ones(ns), or 1/(2*pi) * weights: entry j
FormScale(a, j) ==
    IF a.weights = None THEN Mul(InvTwoPi, Num(1)) ELSE Mul(InvTwoPi, Num(a.weights[j]))

\* G after the charge and dipole expressions, before the diagonal is filled
FormEntry(a, ifcharge, ifdipole, i, j) ==
    LET dx == a.target.x[i] - a.source.x[j]
        dy == a.target.y[i] - a.source.y[j]
        r == Sqrt(dx * dx + dy * dy)
        G0 == Zero
        G1 == IF ifcharge
              THEN Add(G0, Modified_Helmholtz_Greens_Function(r, a.k))
              ELSE G0
    IN  IF ifdipole
        THEN Add(G1, Mul(Num(a.dipvec[1][j] * dx + a.dipvec[2][j] * dy),
                         Modified_Helmholtz_Greens_Function_Derivative(r, a.k)))
        ELSE G1

\* the former without the diagonal fill
FormDiagonalKept(a, i, j, g) == g
\* if source is target: np.fill_diagonal(G, 0.0)
FormDiagonal(a, i, j, g) ==
    IF PyIs(a.source, a.target) /\ i = j THEN Zero ELSE g

\* the zero matrix with its two dimensions exchanged
FormZerosTransposed(nt, ns) == [i \in 1..ns |-> NumZeros(nt)]
\* G = np.zeros([nt, ns])
FormZeros(nt, ns) == [i \in 1..nt |-> NumZeros(ns)]

Modified_Helmholtz_Kernel_Form(a, ifcharge, ifdipole) ==
    LET ns == Shape1(a.source)
        nt == Shape1(a.target)
    IN  IF ~(ifcharge \/ ifdipole)
        THEN Returned("matrix", FormZeros(nt, ns), 0)
        ELSE IF ifdipole /\ a.dipvec = None
        THEN \* nx and ny were never bound: the expression engine cannot resolve them
             Raised("KeyError", <<"nx">>)
        ELSE Returned("matrix",
                      [i \in 1..nt |-> [j \in 1..ns |->
                          Mul(FormDiagonal(a, i, j, FormEntry(a, ifcharge, ifdipole, i, j)),
                              FormScale(a, j))]],
                      nt * ns)

\* -------------------------------------------------------------- the inputs
\* grid points; their mutual distances are 0, 3, 4 and 5
Pts == {<<0, 0>>, <<3, 0>>, <<3, 4>>}
Ks == {1, 2}
Backends == {"numba", "FMM", "fmm"}

PointSeqs == UNION {[1..n -> Pts] : n \in 1..MaxN}
XRow(ps) == [j \in 1..Len(ps) |-> ps[j][1]]
YRow(ps) == [j \in 1..Len(ps) |-> ps[j][2]]

Sources == {[id |-> 1, buf |-> 1, x |-> XRow(ps), y |-> YRow(ps)] : ps \in PointSeqs}
TargetSeqs == UNION {[1..n -> Pts] : n \in 1..MaxT}
\* the same object, a second object viewing the same memory (source[:, :]),
\* a copy (source.copy()), or another array of its own
Targets(src) ==
    {src} \cup {[src EXCEPT !.id = 2]} \cup {[src EXCEPT !.id = 2, !.buf = 2]}
          \cup {[id |-> 2, buf |-> 2, x |-> XRow(ps), y |-> YRow(ps)] : ps \in TargetSeqs}

ChargeArr(n) == [j \in 1..n |-> j + 1]
DipstrArr(n) == [j \in 1..n |-> 2 * j - 5]
DipvecArr(n) == <<[j \in 1..n |-> j], [j \in 1..n |-> 2 - j]>>
WeightsArr(n) == [j \in 1..n |-> 2 * j - 1]

\* fields the external evaluator may return at n points
FMMFields(n) == {[i \in 1..n |-> Num(0)], [i \in 1..n |-> Num(i)]}

\* ------------------------------------------------------------ state machine
VARIABLES
    source, target, k, charge, dipstr, dipvec, weights,  \* the caller's arrays
    have_fmm,   \* whether the FMM package was importable at module load
    pc,         \* "ready" before the call, "done" after it
    op,         \* the entry point called
    backend, gradient, ifcharge, ifdipole,               \* its other arguments
    calls,      \* the functions entered, in order
    handed,     \* what reached the evaluation engine
    ret,        \* what the entry point returned or raised
    \* the jitted loops run as one task per target index (prange)
    eng,        \* the arguments of the jitted function, shared by the tasks
    pot,        \* the shared output array
    tpc,        \* each task's position in the loop body
    tj,         \* each task's inner-loop index j
    treg,       \* each task's register holding the loaded pot cell
    readers,    \* for each pot cell, the tasks that read it
    writers     \* for each pot cell, the tasks that wrote it

seqvars == <<pc, op, backend, gradient, ifcharge, ifdipole, calls, handed, ret>>
parvars == <<eng, pot, tpc, tj, treg, readers, writers>>
vars == <<source, target, k, charge, dipstr, dipvec, weights, have_fmm, seqvars, parvars>>
inputs == <<source, target, k, charge, dipstr, dipvec, weights, have_fmm>>

Args == [source |-> source, target |-> target, k |-> k, charge |-> charge,
         dipstr |-> dipstr, dipvec |-> dipvec, weights |-> weights]

NoTasks ==
    /\ eng = <<>>
    /\ pot = <<>>
    /\ tpc = <<>>
    /\ tj = <<>>
    /\ treg = <<>>
    /\ readers = <<>>
    /\ writers = <<>>

NotYetCalled ==
    /\ pc = "ready"
    /\ op = ""
    /\ backend = ""
    /\ gradient = FALSE
    /\ ifcharge = FALSE
    /\ ifdipole = FALSE
    /\ calls = <<>>
    /\ handed = NoEngine
    /\ ret = NotCalled

Init ==
    /\ source \in Sources
    /\ target \in Targets(source)
    /\ k \in Ks
    /\ charge \in {None, ChargeArr(Shape1(source))}
    /\ dipstr \in {None, DipstrArr(Shape1(source))}
    /\ dipvec \in {None, DipvecArr(Shape1(source))}
    /\ weights \in {None, WeightsArr(Shape1(source))}
    /\ have_fmm \in BOOLEAN
    /\ NotYetCalled
    /\ NoTasks

CallApply ==
    /\ pc = "ready"
    /\ \E bk \in Backends, g \in BOOLEAN, zdiv \in BOOLEAN,
          u \in FMMFields(Shape1(target)) :
        /\ backend' = bk
        /\ gradient' = g
        /\ ret' = Modified_Helmholtz_Kernel_Apply(Args, g, bk, zdiv, have_fmm, u)
        /\ calls' = CallsOfApply(bk, have_fmm)
        /\ handed' = HandedByApply(Args, bk, have_fmm)
    /\ op' = "Modified_Helmholtz_Kernel_Apply"
    /\ pc' = "done"
    /\ UNCHANGED <<inputs, ifcharge, ifdipole, parvars>>

CallApplyNumba ==
    /\ pc = "ready"
    /\ \E zdiv \in BOOLEAN :
        ret' = Modified_Helmholtz_Kernel_Apply_numba(Args, zdiv)
    /\ calls' = CallsOfNumba
    /\ handed' = NumbaHanded(Args)
    /\ op' = "Modified_Helmholtz_Kernel_Apply_numba"
    /\ pc' = "done"
    /\ UNCHANGED <<inputs, backend, gradient, ifcharge, ifdipole, parvars>>

CallApplyFMM ==
    /\ pc = "ready"
    /\ \E u \in FMMFields(Shape1(target)) :
        ret' = Modified_Helmholtz_Kernel_Apply_FMM(Args, have_fmm, u)
    /\ calls' = CallsOfFMM(have_fmm)
    /\ handed' = IF have_fmm THEN FMMHanded(Args) ELSE NoEngine
    /\ op' = "Modified_Helmholtz_Kernel_Apply_FMM"
    /\ pc' = "done"
    /\ UNCHANGED <<inputs, backend, gradient, ifcharge, ifdipole, parvars>>

CallForm ==
    /\ pc = "ready"
    /\ \E c \in BOOLEAN, d \in BOOLEAN :
        /\ ifcharge' = c
        /\ ifdipole' = d
        /\ ret' = Modified_Helmholtz_Kernel_Form(Args, c, d)
    /\ calls' = <<"Modified_Helmholtz_Kernel_Form">>
    /\ handed' = NoEngine
    /\ op' = "Modified_Helmholtz_Kernel_Form"
    /\ pc' = "done"
    /\ UNCHANGED <<inputs, backend, gradient, parvars>>

Next == CallApply \/ CallApplyNumba \/ CallApplyFMM \/ CallForm

Spec == Init /\ [][Next]_vars

\* ------------------------------------------- the loops as concurrent tasks
\* numba.prange over the targets: task i runs the inner loop of target i.
\* pot[i] += term is a load of the cell followed by a store.
Tasks == 1..Len(pot)

\* every task accumulating into the first cell
OwnCellFirst(i) == 1
\* the pot cell task i accumulates into: pot[i]
OwnCell(i) == i

\* the source arrays of pairwise distinct points
DistinctSources ==
    {src \in Sources :
        \A i \in 1..Shape1(src), j \in 1..Shape1(src) :
            (src.x[i] = src.x[j] /\ src.y[i] = src.y[j]) => i = j}

InitPar ==
    /\ source \in DistinctSources
    /\ target \in Targets(source)
    /\ k = 1
    /\ charge \in {None, ChargeArr(Shape1(source))}
    /\ dipstr \in {None, DipstrArr(Shape1(source))}
    /\ dipvec = DipvecArr(Shape1(source))
    /\ weights = None
    /\ have_fmm = TRUE
    /\ NotYetCalled
    /\ eng = NumbaEngineArgs(Args)
    /\ pot = NumZeros(Shape1(target))
    /\ tpc = [i \in 1..Shape1(target) |-> "test"]
    /\ tj = [i \in 1..Shape1(target) |-> 1]
    /\ treg = [i \in 1..Shape1(target) |-> Zero]
    /\ readers = [c \in 1..Shape1(target) |-> {}]
    /\ writers = [c \in 1..Shape1(target) |-> {}]

\* the statement that follows the dipole statement for the pair (i, tj[i])
AfterDipole(i) == IF eng.ifcharge THEN "chg_load" ELSE "test"

\* for j in range(...): if not (doself and i == j): ...
TaskTest(i) ==
    /\ i \in Tasks
    /\ tpc[i] = "test"
    /\ IF tj[i] > ns_of(eng)
       THEN /\ tpc' = [tpc EXCEPT ![i] = "done"]
            /\ tj' = tj
       ELSE IF Visits(eng, i, tj[i]) /\ eng.ifdipole
       THEN /\ tpc' = [tpc EXCEPT ![i] = "dip_load"]
            /\ tj' = tj
       ELSE IF Visits(eng, i, tj[i]) /\ eng.ifcharge
       THEN /\ tpc' = [tpc EXCEPT ![i] = "chg_load"]
            /\ tj' = tj
       ELSE /\ tpc' = tpc
            /\ tj' = [tj EXCEPT ![i] = @ + 1]
    /\ UNCHANGED <<inputs, seqvars, eng, pot, treg, readers, writers>>

TaskDipLoad(i) ==
    /\ i \in Tasks
    /\ tpc[i] = "dip_load"
    /\ treg' = [treg EXCEPT ![i] = pot[OwnCell(i)]]
    /\ readers' = [readers EXCEPT ![OwnCell(i)] = @ \cup {i}]
    /\ tpc' = [tpc EXCEPT ![i] = "dip_store"]
    /\ UNCHANGED <<inputs, seqvars, eng, pot, tj, writers>>

TaskDipStore(i) ==
    /\ i \in Tasks
    /\ tpc[i] = "dip_store"
    /\ pot' = [pot EXCEPT ![OwnCell(i)] = Add(treg[i], DipoleTerm(eng, i, tj[i]))]
    /\ writers' = [writers EXCEPT ![OwnCell(i)] = @ \cup {i}]
    /\ tpc' = [tpc EXCEPT ![i] = AfterDipole(i)]
    /\ tj' = IF eng.ifcharge THEN tj ELSE [tj EXCEPT ![i] = @ + 1]
    /\ UNCHANGED <<inputs, seqvars, eng, treg, readers>>

\* the division by r = 0 raises instead of giving inf/nan: the task stops
TaskDipRaise(i) ==
    /\ i \in Tasks
    /\ tpc[i] = "dip_store"
    /\ PairR(eng, i, tj[i]) = 0
    /\ tpc' = [tpc EXCEPT ![i] = "raised"]
    /\ UNCHANGED <<inputs, seqvars, eng, pot, tj, treg, readers, writers>>

TaskChgLoad(i) ==
    /\ i \in Tasks
    /\ tpc[i] = "chg_load"
    /\ treg' = [treg EXCEPT ![i] = pot[OwnCell(i)]]
    /\ readers' = [readers EXCEPT ![OwnCell(i)] = @ \cup {i}]
    /\ tpc' = [tpc EXCEPT ![i] = "chg_store"]
    /\ UNCHANGED <<inputs, seqvars, eng, pot, tj, writers>>

TaskChgStore(i) ==
    /\ i \in Tasks
    /\ tpc[i] = "chg_store"
    /\ pot' = [pot EXCEPT ![OwnCell(i)] = Add(treg[i], ChargeTerm(eng, i, tj[i]))]
    /\ writers' = [writers EXCEPT ![OwnCell(i)] = @ \cup {i}]
    /\ tpc' = [tpc EXCEPT ![i] = "test"]
    /\ tj' = [tj EXCEPT ![i] = @ + 1]
    /\ UNCHANGED <<inputs, seqvars, eng, treg, readers>>

Task(i) ==
    \/ TaskTest(i)
    \/ TaskDipLoad(i)
    \/ TaskDipStore(i)
    \/ TaskDipRaise(i)
    \/ TaskChgLoad(i)
    \/ TaskChgStore(i)

\* every index a target array of the model can have
TaskIds == 1..(MaxN + MaxT)

NextPar ==
    \/ \E i \in TaskIds : TaskTest(i)
    \/ \E i \in TaskIds : TaskDipLoad(i)
    \/ \E i \in TaskIds : TaskDipStore(i)
    \/ \E i \in TaskIds : TaskDipRaise(i)
    \/ \E i \in TaskIds : TaskChgLoad(i)
    \/ \E i \in TaskIds : TaskChgStore(i)

\* every task is a thread of the pool and keeps being scheduled
SpecPar == InitPar /\ [][NextPar]_vars /\ \A i \in TaskIds : WF_vars(Task(i))

\* ======================================================== the claims
ns == Shape1(source)
nt == Shape1(target)

RECURSIVE SumOver(_, _)
\* the sum of the numbers t[j] over the indices j of J
SumOver(J, t) ==
    IF J = {} THEN Zero
    ELSE LET j == CHOOSE x \in J : TRUE IN Add(t[j], SumOver(J \ {j}, t))

Distance(i, j) ==
    Sqrt((target.x[i] - source.x[j]) * (target.x[i] - source.x[j])
         + (target.y[i] - source.y[j]) * (target.y[i] - source.y[j]))

\* no evaluated pair of points coincides
NoCoincidence(selfmode) ==
    \A i \in 1..nt, j \in 1..ns : (selfmode /\ i = j) \/ Distance(i, j) # 0

\* the contribution of source j to target i as the documentation states it
StatedTerm(i, j) ==
    LET dx == target.x[i] - source.x[j]
        dy == target.y[i] - source.y[j]
        r == Distance(i, j)
        w == IF weights = None THEN 1 ELSE weights[j]
        nxj == IF dipvec = None THEN 0 ELSE dipvec[1][j]
        nyj == IF dipvec = None THEN 0 ELSE dipvec[2][j]
        dip == IF dipstr = None THEN Zero
               ELSE Mul(Mul(Mul(Num(nxj * dx + nyj * dy),
                                Modified_Helmholtz_Greens_Function_Derivative(r, k)),
                            Num(dipstr[j] * w)), InvTwoPi)
        chg == IF charge = None THEN Zero
               ELSE Mul(Mul(Modified_Helmholtz_Greens_Function(r, k),
                            Num(charge[j] * w)), InvTwoPi)
    IN  Add(dip, chg)

StatedSum(i, J) == SumOver(J, [j \in 1..ns |-> StatedTerm(i, j)])

ViaNumbaBackend ==
    pc = "done" /\ op = "Modified_Helmholtz_Kernel_Apply" /\ backend = "numba"

\* C1: the direct apply through the dispatcher returns, at every target i, the
\* sum of the stated dipole and charge terms over all sources j when source and
\* target are separate arrays, and over all j # i when the same object is
\* passed as both.
C1_DirectApplySum ==
    (ViaNumbaBackend /\ ret.kind = "array") =>
        /\ Len(ret.val) = nt
        /\ PyIs(source, target) =>
             \A i \in 1..nt : ret.val[i] = StatedSum(i, (1..ns) \ {i})
        /\ source.buf # target.buf =>
             \A i \in 1..nt : ret.val[i] = StatedSum(i, 1..ns)

C1_Witness ==
    /\ ViaNumbaBackend /\ ret.kind = "array"
    /\ PyIs(source, target) /\ ns = 2
    /\ charge # None /\ dipstr # None /\ dipvec # None /\ weights # None
    /\ ~ret.val[1].nf /\ ret.val[1] # Zero /\ ret.val[1] # ret.val[2]

FormReturned == pc = "done" /\ op = "Modified_Helmholtz_Kernel_Form" /\ ret.kind = "matrix"

\* C2: the former, given the same object as source and target, returns a
\* matrix whose diagonal is exactly zero whatever the flags and the weights,
\* and whose other entries are those formed for a separate copy of the target.
C2_FormDiagonalZero ==
    (FormReturned /\ PyIs(source, target)) =>
        LET other == Modified_Helmholtz_Kernel_Form(
                         [Args EXCEPT !.target = [id |-> 2, buf |-> 2, x |-> target.x,
                                                  y |-> target.y]],
                         ifcharge, ifdipole)
        IN  \A i \in 1..nt, j \in 1..ns :
                IF i = j THEN ret.val[i][j] = Zero
                ELSE ret.val[i][j] = other.val[i][j]

C2_Witness ==
    /\ FormReturned /\ PyIs(source, target)
    /\ ifcharge /\ ifdipole /\ weights # None /\ ns = 2
    /\ ret.val[1][1] = Zero /\ ret.val[2][2] = Zero
    /\ ~ret.val[1][2].nf /\ ret.val[1][2] # Zero

\* C4: with neither contribution requested the former returns the all-zero
\* nt x ns matrix and evaluates no pairwise distance or Green's function.
C4_FormNoContribution ==
    (pc = "done" /\ op = "Modified_Helmholtz_Kernel_Form" /\ ~ifcharge /\ ~ifdipole) =>
        /\ ret.kind = "matrix"
        /\ Len(ret.val) = nt
        /\ \A i \in 1..nt :
             /\ Len(ret.val[i]) = ns
             /\ \A j \in 1..ns : ret.val[i][j] = Zero
        /\ ret.evals = 0

C4_Witness ==
    /\ pc = "done" /\ op = "Modified_Helmholtz_Kernel_Form" /\ ~ifcharge /\ ~ifdipole
    /\ ns = 2 /\ nt = 1 /\ dipvec = None /\ weights # None
    /\ ret.val = <<<<Zero, Zero>>>>

DirectEngineRan == pc = "done" /\ handed.engine = "_modified_helmoholtz"
EqualCoordinates == target.x = source.x /\ target.y = source.y

\* C3: self-interaction mode follows the identity of the point-set object, the
\* same way in the direct apply, the FMM adapter and the former: each excludes
\* the self pairs exactly when the same object is passed as source and target;
\* for two distinct objects with equal coordinates the direct apply visits
\* the i = j pairs and the former leaves the diagonal as evaluated at r = 0.
C3_SelfModeByObjectIdentity ==
    /\ DirectEngineRan =>
         /\ handed.selfmode = PyIs(source, target)
         /\ (ret.kind = "array" /\ ~PyIs(source, target) /\ EqualCoordinates) =>
              ret.evals = nt * ns
    /\ (pc = "done" /\ handed.engine = "FMM") =>
         handed.selfmode = PyIs(source, target)
    /\ (FormReturned /\ (ifcharge \/ ifdipole)) =>
         /\ PyIs(source, target) => \A i \in 1..nt : ret.val[i][i] = Zero
         /\ (~PyIs(source, target) /\ EqualCoordinates) => \A i \in 1..nt : ret.val[i][i].nf

StrengthVectors == [1..ns -> {-1, 0, 2}]

\* the matrix-vector product M @ s
MatVec(M, s) ==
    [i \in 1..Len(M) |-> SumOver(1..ns, [j \in 1..ns |-> Mul(M[i][j], Num(s[j]))])]

\* C5: for source and target that are different objects with no coincident
\* points, the formed matrix times any strength vector s equals the direct
\* apply with charge = s when ifcharge and dipstr = s when ifdipole, for the
\* same k, dipvec and weights.
C5_ApplyFormConsistent ==
    (FormReturned /\ ~PyIs(source, target) /\ NoCoincidence(FALSE)) =>
        \A s \in StrengthVectors :
            LET ap == Modified_Helmholtz_Kernel_Apply_numba(
                          [Args EXCEPT !.charge = IF ifcharge THEN s ELSE None,
                                       !.dipstr = IF ifdipole THEN s ELSE None],
                          TRUE)
            IN  /\ ap.kind = "array"
                /\ \A i \in 1..nt : MatVec(ret.val, s)[i] = ap.val[i]

C5_Witness ==
    /\ FormReturned /\ ~PyIs(source, target) /\ NoCoincidence(FALSE)
    /\ ifcharge /\ ifdipole /\ weights # None /\ dipvec # None /\ ns = 2
    /\ \E s \in StrengthVectors :
         /\ ~MatVec(ret.val, s)[1].nf
         /\ MatVec(ret.val, s)[1].c[2] # 0
         /\ MatVec(ret.val, s)[1].c[1] = 0 /\ MatVec(ret.val, s)[1].c[3] = 0

\* C6: the direct apply with both charge and dipstr equals, at every target,
\* the apply with the charge alone plus the apply with the dipstr alone, in
\* self mode and otherwise.
C6_Superposition ==
    (DirectEngineRan /\ ret.kind = "array" /\ charge # None /\ dipstr # None) =>
        LET c == Modified_Helmholtz_Kernel_Apply_numba([Args EXCEPT !.dipstr = None], FALSE)
            d == Modified_Helmholtz_Kernel_Apply_numba([Args EXCEPT !.charge = None], FALSE)
        IN  \A i \in 1..nt : ret.val[i] = Add(c.val[i], d.val[i])

C6_Witness ==
    /\ DirectEngineRan /\ ret.kind = "array" /\ charge # None /\ dipstr # None
    /\ dipvec # None /\ PyIs(source, target) /\ ns = 2
    /\ ~ret.val[1].nf
    /\ Modified_Helmholtz_Kernel_Apply_numba([Args EXCEPT !.dipstr = None], FALSE).val[1] # Zero
    /\ Modified_Helmholtz_Kernel_Apply_numba([Args EXCEPT !.charge = None], FALSE).val[1] # Zero

DispatcherCalled == pc = "done" /\ op = "Modified_Helmholtz_Kernel_Apply"

RegisteredFunction(bk) ==
    IF bk = "numba" THEN "Modified_Helmholtz_Kernel_Apply_numba"
    ELSE "Modified_Helmholtz_Kernel_Apply_FMM"

\* C7: an unregistered backend identifier fails at once, with no engine entered
\* and no potential array, and the error names every valid backend; a
\* registered identifier enters exactly the function registered under it.
C7_UnknownBackendNamesValid ==
    DispatcherCalled =>
        IF backend \notin Modified_Helmholtz_Kernel_Applys
        THEN /\ ret.kind = "raised"
             /\ ret.val = <<>>
             /\ calls = <<"Modified_Helmholtz_Kernel_Apply">>
             /\ handed = NoEngine
             /\ \A b \in Modified_Helmholtz_Kernel_Applys :
                    \E n \in 1..Len(ret.exc.args) : ret.exc.args[n] = b
        ELSE calls[2] = RegisteredFunction(backend)

\* C8: the dispatcher returns one array of nt potentials when gradient is
\* false, and a tuple of three arrays of length nt (potential, x-derivative,
\* y-derivative) when gradient is true.
C8_GradientResultShape ==
    (DispatcherCalled /\ ret.kind # "raised") =>
        IF gradient
        THEN /\ ret.kind = "tuple"
             /\ Len(ret.val) = 3
             /\ \A c \in 1..3 : Len(ret.val[c]) = nt
        ELSE /\ ret.kind = "array"
             /\ Len(ret.val) = nt

\* C10 as stated: for either backend, an absent dipvec reaches the engine as a
\* pair of zero arrays of length ns, and the result is that of the same call
\* without dipstr.
C10_MissingDipvecEitherBackend ==
    (DispatcherCalled /\ dipvec = None /\ handed.engine # "") =>
        /\ handed.dipvec = <<[j \in 1..ns |-> 0], [j \in 1..ns |-> 0]>>
        /\ (backend = "numba" /\ ret.kind = "array") =>
             ret.val = Modified_Helmholtz_Kernel_Apply_numba(
                           [Args EXCEPT !.dipstr = None], FALSE).val

\* C10 amended: with the numba backend an absent dipvec reaches the engine as
\* a pair of zero arrays of length ns, and wherever no visited pair of points
\* coincides the result is that of the same call without dipstr; with the FMM
\* backend the absent dipvec is forwarded to the evaluator as it is.
C10_MissingDipvecNumba ==
    (DispatcherCalled /\ dipvec = None) =>
        /\ backend = "numba" =>
             /\ handed.dipvec = <<[j \in 1..ns |-> 0], [j \in 1..ns |-> 0]>>
             /\ (ret.kind = "array" /\ NoCoincidence(handed.selfmode)) =>
                  ret.val = Modified_Helmholtz_Kernel_Apply_numba(
                                [Args EXCEPT !.dipstr = None], FALSE).val
        /\ handed.engine = "FMM" => handed.dipvec = None

C10_Witness ==
    /\ DispatcherCalled /\ dipvec = None /\ backend = "numba"
    /\ dipstr # None /\ charge # None /\ ns = 2
    /\ ret.kind = "array" /\ NoCoincidence(handed.selfmode)
    /\ ~ret.val[1].nf /\ ret.val[1] # Zero

AllDone == \A i \in Tasks : tpc[i] = "done"

C9_Safe ==
    /\ \A c \in 1..nt : readers[c] \subseteq {c} /\ writers[c] \subseteq {c}
    /\ \A i \in Tasks : tpc[i] = "done" => tj[i] = ns + 1
    /\ AllDone => pot = modified_helmoholtz(eng, NumZeros(nt))

\* C9: with the target loop run as concurrent tasks, each pot cell is read and
\* written by its own task only, the arrays handed in are never written, every
\* task comes to an end, a task that finishes has gone through its ns
\* sources, and when all have finished pot is what the sequential loops give.
C9_RaceFree ==
    /\ []C9_Safe
    /\ [][eng' = eng /\ inputs' = inputs]_vars
    /\ <>(\A i \in Tasks : tpc[i] \in {"done", "raised"})

C9_Witness ==
    /\ AllDone /\ nt = 2 /\ ns = 2
    /\ charge # None /\ dipstr # None
    /\ writers = <<{1}, {2}>> /\ readers = <<{1}, {2}>>
    /\ ~pot[1].nf /\ pot[1] # Zero /\ pot[2] # pot[1]

====
